---- MODULE Spec2Model ----
(***************************************************************************)
(* A model of the retrieval-and-indexing core of the RAG service:          *)
(*   backend/rag/index_builder.py  IndexBuilder (index + parallel metadata,*)
(*                                 save / load of the two artifacts)       *)
(*   backend/rag/pipeline.py       RAGPipeline (initialized flag, ingest,  *)
(*                                 query, load_index, save_index)          *)
(*   backend/rag/retriever.py      Retriever (query cache, retrieve)       *)
(*   backend/rag/llm_gateway.py    RateLimiter, LLMGateway.generate        *)
(*                                                                         *)
(*   backend/rag/text_processor.py TextProcessor.chunk_text                *)
(*   backend/api/routes.py         the /query and /documents routes        *)
(*                                                                         *)
(* Each specification drives one object, or one way of calling it, over    *)
(* the variables that object owns, and leaves the others unchanged:        *)
(*   SpecIndex     an IndexBuilder driven through its public methods       *)
(*   Spec          a RAGPipeline (which owns an IndexBuilder and the disk) *)
(*   SpecCache     the Retriever's query cache                             *)
(*   SpecGateway   the LLMGateway with its RateLimiter and the clock       *)
(*   SpecRetrieve  Retriever.retrieve called on the index of a pipeline    *)
(*   SpecRoutes    the upload and delete routes of the API                 *)
(*   SpecAppendRace  two threads inside IndexBuilder.add_documents         *)
(*   SpecReadRace    two threads inside Retriever.retrieve                 *)
(*   SpecChunk, SpecChunkLoop, SpecChunkCut   TextProcessor.chunk_text     *)
(***************************************************************************)
EXTENDS Integers, Sequences, FiniteSets, TLC

VARIABLES
    index,        \* IndexBuilder.index: [present, rows]; present = FALSE is None
    metadata,     \* IndexBuilder.metadata: the list parallel to the index rows
    diskIndex,    \* the persisted index artifact  [state, rows]
    diskMeta,     \* the persisted metadata artifact [state, rows]
    initialized,  \* RAGPipeline._is_initialized
    last,         \* the last call made and how it ended
    resp,         \* the RAGResponse of the last query, with the calls it made
    cache,        \* Retriever._query_cache, in insertion order
    cacheLog,     \* what the last _embed_query call did
    calls,        \* RateLimiter.calls: the deque of admitted timestamps
    now,          \* the clock time.time() reads
    gw,           \* the generate call in progress, or its result
    ret,          \* the last Retriever.retrieve call: arguments and outcome
    chunker,      \* the chunk_text call in progress, or its result
    appenders,    \* per thread, the add_documents call it is executing
    readers       \* per thread, the retrieve call it is executing

vars == <<index, metadata, diskIndex, diskMeta, initialized, last, resp,
          cache, cacheLog, calls, now, gw, ret, chunker, appenders, readers>>

indexVars == <<index, metadata, diskIndex, diskMeta, initialized, last, resp>>
cacheVars == <<cache, cacheLog>>
gatewayVars == <<calls, now, gw>>
threadVars == <<appenders, readers>>

----------------------------------------------------------------------------
(* Bounds of the model.                                                    *)

\* the most rows the in-memory index or the metadata list grows to
MaxRows == 2

\* the most documents / metadata records one build or append call is given
MaxBatch == 2

\* the most chunks one ingested file yields
MaxChunks == 2

\* the k a query asks for (the code treats 0 as it treats k left
\* unspecified)
RequestedK == {0, 1, 2}

\* Retriever.retrieval_k, the configured default k (4 in config.py), scaled
\* to the size of the modelled index
DefaultK == 2

\* Retriever._query_cache capacity (1000 in retriever.py), scaled
CacheCapacity == 3

\* the document ids (uuid prefixes) the ingests draw, in the order drawn
DocIds == <<"d1", "d2">>

\* query strings
Queries == {"q1", "q2", "q3", "q4", "q5", "q6"}

\* RateLimiter.max_calls and RateLimiter.period (10 calls per 60 seconds in
\* llm_gateway.py), scaled to the modelled clock
MaxCalls == 2
Period == 3

\* the largest max_retries a generate call is given (the default is 3)
MaxRetries == 3

\* the clock runs from 0 to MaxTime
MaxTime == 4

\* the most timestamps the limiter's deque is let grow to
MaxLogged == 5

\* the longest text handed to chunk_text, and the largest chunk_size and
\* chunk_overlap a TextProcessor is built with
MaxText == 6
MaxChunkSize == 5
MaxOverlap == 5

\* how many chunks of the list chunk_text builds are recorded
MaxCutText == 8
MaxCutSize == 7
MaxMarks == 3
MaxKept == 4

\* the characters of the texts: a letter and the newline, which is
\* whitespace to str.strip and one of the sentence-break marks
Alphabet == {"a", "nl"}

----------------------------------------------------------------------------
(* Chunks, embeddings and metadata records.                                *)

\* the text handed to the embedder for chunk i of document d: the chunk
\* prefixed with its [source_type:document_id] tag
ChunkText(d, i) == [document_id |-> d, chunk_idx |-> i]

\* the metadata record of chunk i of n of document d
ChunkMeta(d, i, n) ==
    [document_id |-> d, chunk_idx |-> i, total_chunks |-> n,
     content |-> ChunkText(d, i)]

\* TextProcessor.prepare_for_indexing for one processed document of n chunks
prepare_for_indexing(d, n) ==
    [chunks   |-> [i \in 1..n |-> ChunkText(d, i - 1)],
     metadata |-> [i \in 1..n |-> ChunkMeta(d, i - 1, n)]]

\* the embedding model: one normalized vector per text
Embed(text) == [vec_of |-> text]

\* IndexBuilder.embed_documents: np.vstack of no batches raises
embed_documents(documents) ==
    IF Len(documents) = 0
    THEN [raised |-> TRUE, vectors |-> <<>>]
    ELSE [raised |-> FALSE,
          vectors |-> [i \in 1..Len(documents) |-> Embed(documents[i])]]

NoIndex == [present |-> FALSE, rows |-> <<>>]

SeqsUpTo(S, n) == UNION {[1..k -> S] : k \in 0..n}

\* the texts and records a direct caller of IndexBuilder passes: the calls
\* differ in how many documents and how many records they pass
ArgTexts == {ChunkText("d1", 0)}
ArgMetas == {ChunkMeta("d1", 0, 1)}

----------------------------------------------------------------------------
(* IndexBuilder. Each method is an operator from the object's fields (and   *)
(* the disk) to the fields after the call and how the call ended.           *)

\* IndexBuilder.is_ready
is_ready(idx) == idx.present /\ Len(idx.rows) > 0

\* IndexBuilder.document_count
document_count(idx) == IF idx.present THEN Len(idx.rows) ELSE 0

\* build_index with the length test placed after index.add, in front of
\* `self.metadata = metadata`
build_index_late_check(idx, meta, documents, md, fault) ==
    IF embed_documents(documents).raised \/ fault = "embed"
    THEN [index |-> idx, metadata |-> meta, ok |-> FALSE, err |-> "EmbedError",
          embedded |-> TRUE]
    ELSE IF fault = "add"
    THEN [index |-> [present |-> TRUE, rows |-> <<>>], metadata |-> meta,
          ok |-> FALSE, err |-> "AddError", embedded |-> TRUE]
    ELSE IF Len(documents) # Len(md)
    THEN [index |-> [present |-> TRUE,
                     rows |-> embed_documents(documents).vectors],
          metadata |-> meta, ok |-> FALSE, err |-> "ValueError",
          embedded |-> TRUE]
    ELSE [index |-> [present |-> TRUE,
                     rows |-> embed_documents(documents).vectors],
          metadata |-> md, ok |-> TRUE, err |-> "", embedded |-> TRUE]

\* IndexBuilder.build_index; fault names the step that raises:
\* "embed" (the model), "add" (index.add, after self.index was replaced);
\* embedded says whether embed_documents was called
build_index(idx, meta, documents, md, fault) ==
    IF Len(documents) # Len(md)
    THEN [index |-> idx, metadata |-> meta, ok |-> FALSE, err |-> "ValueError",
          embedded |-> FALSE]
    ELSE IF embed_documents(documents).raised \/ fault = "embed"
    THEN [index |-> idx, metadata |-> meta, ok |-> FALSE, err |-> "EmbedError",
          embedded |-> TRUE]
    ELSE IF fault = "add"
    THEN [index |-> [present |-> TRUE, rows |-> <<>>], metadata |-> meta,
          ok |-> FALSE, err |-> "AddError", embedded |-> TRUE]
    ELSE [index |-> [present |-> TRUE,
                     rows |-> embed_documents(documents).vectors],
          metadata |-> md, ok |-> TRUE, err |-> "", embedded |-> TRUE]

\* add_documents that builds a new index from the new documents whether or
\* not one exists
add_documents_rebuilds(idx, meta, documents, md, fault) ==
    build_index(idx, meta, documents, md, fault)

\* IndexBuilder.add_documents
add_documents(idx, meta, documents, md, fault) ==
    IF ~idx.present
    THEN build_index(idx, meta, documents, md, fault)
    ELSE IF embed_documents(documents).raised \/ fault = "embed"
    THEN [index |-> idx, metadata |-> meta, ok |-> FALSE, err |-> "EmbedError",
          embedded |-> TRUE]
    ELSE IF fault = "add"
    THEN [index |-> idx, metadata |-> meta, ok |-> FALSE, err |-> "AddError",
          embedded |-> TRUE]
    ELSE [index |-> [present |-> TRUE,
                     rows |-> idx.rows \o embed_documents(documents).vectors],
          metadata |-> meta \o md, ok |-> TRUE, err |-> "", embedded |-> TRUE]

AbsentFile == [state |-> "absent", rows |-> <<>>]
CorruptFile == [state |-> "corrupt", rows |-> <<>>]
ValidFile(rows) == [state |-> "valid", rows |-> rows]

\* IndexBuilder.save; fault names the step that raises or at which the
\* process is interrupted:
\*   "index_write"  faiss.write_index fails part-way: a partial blob
\*   "meta_open"    open(metadata_path, 'w') is refused: the old file stays
\*   "meta_dump"    json.dump fails after open truncated the file
save(idx, meta, dIdx, dMeta, fault) ==
    IF ~idx.present
    THEN [diskIndex |-> dIdx, diskMeta |-> dMeta, ok |-> FALSE,
          err |-> "ValueError"]
    ELSE IF fault = "index_write"
    THEN [diskIndex |-> CorruptFile, diskMeta |-> dMeta, ok |-> FALSE,
          err |-> "IOError"]
    ELSE IF fault = "meta_open"
    THEN [diskIndex |-> ValidFile(idx.rows), diskMeta |-> dMeta, ok |-> FALSE,
          err |-> "PermissionError"]
    ELSE IF fault = "meta_dump"
    THEN [diskIndex |-> ValidFile(idx.rows), diskMeta |-> CorruptFile,
          ok |-> FALSE, err |-> "IOError"]
    ELSE [diskIndex |-> ValidFile(idx.rows), diskMeta |-> ValidFile(meta),
          ok |-> TRUE, err |-> ""]

\* load with the JSONDecodeError handler returning without the reset, as the
\* FileNotFoundError handler does
load_corrupt_kept(idx, meta, dIdx, dMeta, denied) ==
    IF dIdx.state # "valid" \/ denied = "index"
    THEN [index |-> NoIndex, metadata |-> <<>>, ok |-> FALSE,
          err |-> "Exception"]
    ELSE IF dMeta.state = "absent"
    THEN [index |-> [present |-> TRUE, rows |-> dIdx.rows], metadata |-> meta,
          ok |-> FALSE, err |-> "FileNotFoundError"]
    ELSE IF denied = "metadata"
    THEN [index |-> [present |-> TRUE, rows |-> dIdx.rows], metadata |-> meta,
          ok |-> FALSE, err |-> "PermissionError"]
    ELSE IF dMeta.state = "corrupt"
    THEN [index |-> [present |-> TRUE, rows |-> dIdx.rows], metadata |-> meta,
          ok |-> FALSE, err |-> "JSONDecodeError"]
    ELSE [index |-> [present |-> TRUE, rows |-> dIdx.rows],
          metadata |-> dMeta.rows, ok |-> TRUE, err |-> ""]

\* IndexBuilder.load; denied names the artifact the process may not read.
\* faiss.read_index reports every failure as a RuntimeError, which the
\* catch-all handler takes; open() of the metadata file raises
\* FileNotFoundError or PermissionError, json.load raises JSONDecodeError.
load(idx, meta, dIdx, dMeta, denied) ==
    IF dIdx.state # "valid" \/ denied = "index"
    THEN [index |-> NoIndex, metadata |-> <<>>, ok |-> FALSE,
          err |-> "Exception"]
    ELSE IF dMeta.state = "absent"
    THEN [index |-> [present |-> TRUE, rows |-> dIdx.rows], metadata |-> meta,
          ok |-> FALSE, err |-> "FileNotFoundError"]
    ELSE IF denied = "metadata"
    THEN [index |-> [present |-> TRUE, rows |-> dIdx.rows], metadata |-> meta,
          ok |-> FALSE, err |-> "PermissionError"]
    ELSE IF dMeta.state = "corrupt"
    THEN [index |-> NoIndex, metadata |-> <<>>, ok |-> FALSE,
          err |-> "JSONDecodeError"]
    ELSE [index |-> [present |-> TRUE, rows |-> dIdx.rows],
          metadata |-> dMeta.rows, ok |-> TRUE, err |-> ""]

\* how a call ended, whether the index was ready when it was made, and for
\* a load the artifact the process was denied
Ended(op, r, was, denied) ==
    [op |-> op, ok |-> r.ok, err |-> r.err, was_ready |-> was,
     denied |-> denied]

----------------------------------------------------------------------------
(* Retriever._query_cache. The dict is modelled as the sequence of its     *)
(* entries in insertion order, which is the order a Python dict iterates.  *)

\* TextProcessor.compute_hash: the first 12 hex digits of the MD5 digest.
\* The truncated digest is not injective: "q6" stands for a query whose
\* digest prefix equals that of "q1"
compute_hash(q) ==
    CASE q = "q1" -> "h1"
      [] q = "q2" -> "h2"
      [] q = "q3" -> "h3"
      [] q = "q4" -> "h4"
      [] q = "q5" -> "h5"
      [] OTHER    -> "h1"

\* `cache_key in self._query_cache`
InCache(c, key) == \E i \in DOMAIN c : c[i].key = key

\* `self._query_cache[cache_key]`
CacheGet(c, key) == c[CHOOSE i \in DOMAIN c : c[i].key = key].vec

\* _embed_query with a hit moving the entry to the end of the dict (an LRU
\* cache)
embed_query_lru(c, q) ==
    LET key == compute_hash(q) IN
    IF InCache(c, key)
    THEN [cache |-> Append(SelectSeq(c, LAMBDA e : e.key # key),
                           [key |-> key, vec |-> CacheGet(c, key)]),
          value |-> CacheGet(c, key), key |-> key,
          invoked |-> FALSE, evicted |-> "none"]
    ELSE LET ins == Append(c, [key |-> key, vec |-> Embed(q)])
             over == Len(ins) > CacheCapacity
             c2 == IF over THEN Tail(ins) ELSE ins
         IN  [cache |-> c2, value |-> CacheGet(c2, key), key |-> key,
              invoked |-> TRUE,
              evicted |-> IF over THEN ins[1].key ELSE "none"]

\* _embed_query without the membership test: the model is invoked on every
\* call and the entry is overwritten where it stands
embed_query_uncached(c, q) ==
    LET key == compute_hash(q) IN
    IF InCache(c, key)
    THEN [cache |-> [i \in DOMAIN c |->
                        IF c[i].key = key
                        THEN [key |-> key, vec |-> Embed(q)] ELSE c[i]],
          value |-> Embed(q), key |-> key,
          invoked |-> TRUE, evicted |-> "none"]
    ELSE LET ins == Append(c, [key |-> key, vec |-> Embed(q)])
             over == Len(ins) > CacheCapacity
             c2 == IF over THEN Tail(ins) ELSE ins
         IN  [cache |-> c2, value |-> CacheGet(c2, key), key |-> key,
              invoked |-> TRUE,
              evicted |-> IF over THEN ins[1].key ELSE "none"]

\* Retriever._embed_query: the cache after the call, the vector returned,
\* whether the embedding model was invoked and which key was evicted
embed_query_cached(c, q) ==
    LET key == compute_hash(q) IN
    IF InCache(c, key)
    THEN [cache |-> c, value |-> CacheGet(c, key), key |-> key,
          invoked |-> FALSE, evicted |-> "none"]
    ELSE LET ins == Append(c, [key |-> key, vec |-> Embed(q)])
             over == Len(ins) > CacheCapacity
             c2 == IF over THEN Tail(ins) ELSE ins
         IN  [cache |-> c2, value |-> CacheGet(c2, key), key |-> key,
              invoked |-> TRUE,
              evicted |-> IF over THEN ins[1].key ELSE "none"]

\* Retriever.clear_cache
clear_cache(c) == <<>>

CacheLog(op, r, q) ==
    [op |-> op, query |-> q, key |-> r.key, value |-> r.value,
     invoked |-> r.invoked, evicted |-> r.evicted]

NoCacheLog ==
    [op |-> "init", query |-> "", key |-> "", value |-> Embed(""),
     invoked |-> FALSE, evicted |-> "none"]

----------------------------------------------------------------------------
(* Retriever.retrieve.                                                     *)

\* filters: the keys the dict holds, and a value for each of them
Filters(keys, d, i) == [keys |-> keys, document_id |-> d, chunk_idx |-> i]
NoFilters == Filters({}, "", 0)

\* `if filters`: an empty or absent filter dict is falsy
HasFilters(filters) == filters.keys # {}

\* the filter test with any() in place of all()
MatchesAny(m, filters) == \E key \in filters.keys : m[key] = filters[key]

\* all(metadata.get(key) == value for key, value in filters.items())
Matches(m, filters) == \A key \in filters.keys : m[key] = filters[key]

\* `k = k or self.retrieval_k`: None and 0 both resolve to the default
ResolveK(k, retrieval_k) == IF k = 0 THEN retrieval_k ELSE k

\* index.search: the best search_k rows in descending score order; ranking
\* is the caller-given permutation of the rows, of which the first `cut`
\* have a score >= min_score
Candidates(idx, ranking, cut, search_k) ==
    LET n == IF search_k < Len(idx.rows) THEN search_k ELSE Len(idx.rows) IN
    [i \in 1..n |-> [row |-> ranking[i], scored |-> i <= cut]]

\* the loop over the candidates (retriever.py 110-137), entered after the
\* query was embedded; metadata[idx] raises IndexError past the list's end
RECURSIVE Scan(_, _, _, _, _)
Scan(cands, meta, filters, k, acc) ==
    IF cands = <<>>
    THEN [raised |-> FALSE, results |-> acc, embedded |-> TRUE]
    ELSE LET c == Head(cands) IN
         IF ~c.scored
         THEN Scan(Tail(cands), meta, filters, k, acc)
         ELSE IF c.row > Len(meta)
         THEN [raised |-> TRUE, results |-> <<>>, embedded |-> TRUE]
         ELSE IF HasFilters(filters) /\ ~Matches(meta[c.row], filters)
         THEN Scan(Tail(cands), meta, filters, k, acc)
         ELSE LET acc2 == Append(acc, [row |-> c.row, metadata |-> meta[c.row]])
              IN  IF Len(acc2) >= k
                  THEN [raised |-> FALSE, results |-> acc2, embedded |-> TRUE]
                  ELSE Scan(Tail(cands), meta, filters, k, acc2)

\* retrieve without the `if not self.index_builder.is_ready` return: the
\* search on an index that is None raises AttributeError
retrieve_unguarded(idx, meta, ranking, cut, k, filters, retrieval_k) ==
    LET kk == ResolveK(k, retrieval_k)
        search_k == IF HasFilters(filters) THEN kk * 3 ELSE kk
    IN  IF ~idx.present
        THEN [raised |-> TRUE, results |-> <<>>, embedded |-> TRUE]
        ELSE Scan(Candidates(idx, ranking, cut, search_k), meta, filters, kk,
                  <<>>)

\* Retriever.retrieve; embedded says whether _embed_query and index.search
\* were reached
retrieve(idx, meta, ranking, cut, k, filters, retrieval_k) ==
    LET kk == ResolveK(k, retrieval_k) IN
    IF ~is_ready(idx)
    THEN [raised |-> FALSE, results |-> <<>>, embedded |-> FALSE]
    ELSE LET search_k == IF HasFilters(filters) THEN kk * 3 ELSE kk IN
         Scan(Candidates(idx, ranking, cut, search_k), meta, filters, kk, <<>>)

\* Retriever.get_citations
get_citations(results) ==
    [i \in 1..Len(results) |->
        [index |-> i,
         document_id |-> results[i].metadata.document_id,
         chunk |-> <<results[i].metadata.chunk_idx + 1,
                     results[i].metadata.total_chunks>>]]

----------------------------------------------------------------------------
(* RAGPipeline.                                                            *)

\* a RAGResponse, with what the call reached: whether retrieve and generate
\* were invoked, and what retrieve came back with
Response(success, answer, results, error, retrieved, generated, found) ==
    [success |-> success, answer |-> answer,
     citations |-> get_citations(results), sources |-> results,
     error |-> error, retrieved |-> retrieved, generated |-> generated,
     raised |-> found.raised, n_results |-> Len(found.results)]

NothingFound == [raised |-> FALSE, results |-> <<>>, embedded |-> FALSE]

NoResponse == Response(FALSE, "", <<>>, "", FALSE, FALSE, NothingFound)

\* load_index with the flag assigned from the outcome of every load
load_index_flag_follows(idx, meta, init, dIdx, dMeta, denied) ==
    IF dIdx.state # "absent" /\ dMeta.state # "absent"
    THEN LET r == load(idx, meta, dIdx, dMeta, denied) IN
         [index |-> r.index, metadata |-> r.metadata, initialized |-> r.ok,
          ok |-> r.ok, err |-> r.err]
    ELSE [index |-> idx, metadata |-> meta, initialized |-> init,
          ok |-> FALSE, err |-> "NoFiles"]

\* RAGPipeline.load_index (both paths are configured by main.py)
load_index(idx, meta, init, dIdx, dMeta, denied) ==
    IF dIdx.state # "absent" /\ dMeta.state # "absent"
    THEN LET r == load(idx, meta, dIdx, dMeta, denied) IN
         [index |-> r.index, metadata |-> r.metadata,
          initialized |-> IF r.ok THEN TRUE ELSE init,
          ok |-> r.ok, err |-> r.err]
    ELSE [index |-> idx, metadata |-> meta, initialized |-> init,
          ok |-> FALSE, err |-> "NoFiles"]

\* process_and_index_file with `self._is_initialized = True` in front of
\* the add_documents call
process_and_index_file_flag_first(idx, meta, init, dIdx, dMeta, d, n, do_save, fault) ==
    IF fault = "extract"
    THEN [index |-> idx, metadata |-> meta, initialized |-> init,
          diskIndex |-> dIdx, diskMeta |-> dMeta,
          ok |-> FALSE, err |-> "ValueError"]
    ELSE LET p == prepare_for_indexing(d, n)
             a == add_documents(idx, meta, p.chunks, p.metadata, fault)
         IN  IF ~a.ok
             THEN [index |-> a.index, metadata |-> a.metadata,
                   initialized |-> TRUE,
                   diskIndex |-> dIdx, diskMeta |-> dMeta,
                   ok |-> FALSE, err |-> a.err]
             ELSE IF ~do_save
             THEN [index |-> a.index, metadata |-> a.metadata,
                   initialized |-> TRUE,
                   diskIndex |-> dIdx, diskMeta |-> dMeta,
                   ok |-> TRUE, err |-> ""]
             ELSE LET s == save(a.index, a.metadata, dIdx, dMeta, fault) IN
                  [index |-> a.index, metadata |-> a.metadata,
                   initialized |-> TRUE,
                   diskIndex |-> s.diskIndex, diskMeta |-> s.diskMeta,
                   ok |-> s.ok, err |-> s.err]

\* RAGPipeline.process_and_index_file for a file that yields document d in
\* n chunks; fault names the step that raises ("extract": process_file;
\* "embed", "add": add_documents; the others: save, reached when do_save)
process_and_index_file(idx, meta, init, dIdx, dMeta, d, n, do_save, fault) ==
    IF fault = "extract"
    THEN [index |-> idx, metadata |-> meta, initialized |-> init,
          diskIndex |-> dIdx, diskMeta |-> dMeta,
          ok |-> FALSE, err |-> "ValueError"]
    ELSE LET p == prepare_for_indexing(d, n)
             a == add_documents(idx, meta, p.chunks, p.metadata, fault)
         IN  IF ~a.ok
             THEN [index |-> a.index, metadata |-> a.metadata,
                   initialized |-> init,
                   diskIndex |-> dIdx, diskMeta |-> dMeta,
                   ok |-> FALSE, err |-> a.err]
             ELSE IF ~do_save
             THEN [index |-> a.index, metadata |-> a.metadata,
                   initialized |-> TRUE,
                   diskIndex |-> dIdx, diskMeta |-> dMeta,
                   ok |-> TRUE, err |-> ""]
             ELSE LET s == save(a.index, a.metadata, dIdx, dMeta, fault) IN
                  [index |-> a.index, metadata |-> a.metadata,
                   initialized |-> TRUE,
                   diskIndex |-> s.diskIndex, diskMeta |-> s.diskMeta,
                   ok |-> s.ok, err |-> s.err]

NotIndexedAnswer == "No documents have been indexed yet"
NotFoundAnswer == "No relevant information found"

\* what query does once the pipeline is initialized (pipeline.py 166-216)
query_initialized(found, llm) ==
    IF found.raised
    THEN Response(FALSE, "", <<>>, "Retrieval failed", TRUE, FALSE, found)
    ELSE IF found.results = <<>>
    THEN Response(TRUE, NotFoundAnswer, <<>>, "", TRUE, FALSE, found)
    ELSE Response(llm = "ok", IF llm = "ok" THEN "generated" ELSE "",
                  found.results, IF llm = "ok" THEN "" ELSE llm,
                  TRUE, TRUE, found)

\* query without the `if not self._is_initialized` return
query_unguarded(init, found, llm) == query_initialized(found, llm)

\* query without the `if not results` return: the generator is given an
\* empty context
query_always_generates(init, found, llm) ==
    IF ~init
    THEN Response(FALSE, NotIndexedAnswer, <<>>, "Pipeline not initialized",
                  FALSE, FALSE, NothingFound)
    ELSE IF found.raised
    THEN Response(FALSE, "", <<>>, "Retrieval failed", TRUE, FALSE, found)
    ELSE Response(llm = "ok", IF llm = "ok" THEN "generated" ELSE "",
                  found.results, IF llm = "ok" THEN "" ELSE llm,
                  TRUE, TRUE, found)

\* RAGPipeline.query. found is what self.retriever.retrieve does when it is
\* called; llm is how LLMGateway.generate ends when it is reached: "ok"
\* (content returned) or a structured failure.
query(init, found, llm) ==
    IF ~init
    THEN Response(FALSE, NotIndexedAnswer, <<>>, "Pipeline not initialized",
                  FALSE, FALSE, NothingFound)
    ELSE query_initialized(found, llm)

----------------------------------------------------------------------------
(* RateLimiter and LLMGateway.generate. The clock counts whole ticks.      *)

\* `while self.calls and self.calls[0] < now - self.period: popleft()`
RECURSIVE Purge(_, _)
Purge(c, t) ==
    IF c # <<>> /\ c[1] < t - Period THEN Purge(Tail(c), t) ELSE c

\* RateLimiter.wait_if_needed called at clock t; late is by how much
\* time.sleep oversleeps. Gives the deque and the clock after the call.
wait_if_needed(c, t, late) ==
    LET kept == Purge(c, t)
        sleep_time == IF Len(kept) >= MaxCalls THEN kept[1] + Period - t ELSE 0
        t2 == IF sleep_time > 0 THEN t + sleep_time + late ELSE t
    IN  [calls |-> Append(kept, t2), now |-> t2, slept |-> sleep_time > 0]

Pow2(n) == IF n = 0 THEN 1 ELSE IF n = 1 THEN 2 ELSE IF n = 2 THEN 4 ELSE 8

Idle ==
    [pc |-> "idle", max_retries |-> 0, attempt |-> 0, api_calls |-> 0,
     failures |-> 0, sleeps |-> <<>>, success |-> FALSE, error |-> "",
     error_n |-> 0]

Returned(g, success, error, n) ==
    [g EXCEPT !.pc = "done", !.success = success, !.error = error,
              !.error_n = n]

\* LLMGateway.generate up to its loop (llm_gateway.py 97-107)
generate_start(client, max_retries) ==
    LET g == [Idle EXCEPT !.max_retries = max_retries] IN
    IF ~client
    THEN Returned(g, FALSE, "LLM client not initialized", 0)
    ELSE IF max_retries <= 0
    THEN Returned(g, FALSE, "No retry attempts configured", 0)
    ELSE [g EXCEPT !.pc = "attempt"]

\* one pass of the loop with one retry too many
generate_attempt_extra(g, outcome) ==
    LET called == [g EXCEPT !.api_calls = @ + 1] IN
    IF outcome = "ok"
    THEN Returned(called, TRUE, "", 0)
    ELSE LET failed == [called EXCEPT !.failures = @ + 1] IN
         IF g.attempt < g.max_retries
         THEN [failed EXCEPT !.attempt = @ + 1,
                             !.sleeps = Append(@, Pow2(g.attempt))]
         ELSE Returned(failed, FALSE, "LLM call failed after n attempts",
                       g.max_retries)

\* one pass of the loop that sleeps after the last failure as well, before
\* it returns the error
generate_attempt_sleeps_last(g, outcome) ==
    LET called == [g EXCEPT !.api_calls = @ + 1] IN
    IF outcome = "ok"
    THEN Returned(called, TRUE, "", 0)
    ELSE LET failed == [called EXCEPT !.failures = @ + 1,
                                      !.sleeps = Append(@, Pow2(g.attempt))]
         IN  IF g.attempt < g.max_retries - 1
             THEN [failed EXCEPT !.attempt = @ + 1]
             ELSE Returned(failed, FALSE, "LLM call failed after n attempts",
                           g.max_retries)

\* one pass of the loop (llm_gateway.py 107-157), after the rate limiter
\* let it through: the API call ends "ok" or raises ("error": the call
\* itself, or the ValueError for a response without choices)
generate_attempt(g, outcome) ==
    LET called == [g EXCEPT !.api_calls = @ + 1] IN
    IF outcome = "ok"
    THEN Returned(called, TRUE, "", 0)
    ELSE LET failed == [called EXCEPT !.failures = @ + 1] IN
         IF g.attempt < g.max_retries - 1
         THEN [failed EXCEPT !.attempt = @ + 1,
                             !.sleeps = Append(@, Pow2(g.attempt))]
         ELSE Returned(failed, FALSE, "LLM call failed after n attempts",
                       g.max_retries)

----------------------------------------------------------------------------
(* Calls in progress.                                                      *)

\* str.strip(): leading and trailing whitespace removed
Whitespace == {" ", "nl"}

RECURSIVE LStrip(_)
LStrip(t) == IF t # <<>> /\ Head(t) \in Whitespace THEN LStrip(Tail(t)) ELSE t

RECURSIVE RStrip(_)
RStrip(t) ==
    IF t # <<>> /\ t[Len(t)] \in Whitespace
    THEN RStrip(SubSeq(t, 1, Len(t) - 1)) ELSE t

Strip(t) == RStrip(LStrip(t))

\* a slice bound as Python reads it on a string of length n
PyIndex(i, n) ==
    IF i < 0 THEN (IF i + n < 0 THEN 0 ELSE i + n)
    ELSE IF i > n THEN n ELSE i

\* t[a:b]
PySlice(t, a, b) ==
    LET lo == PyIndex(a, Len(t))
        hi == PyIndex(b, Len(t))
    IN  IF lo < hi THEN SubSeq(t, lo + 1, hi) ELSE <<>>

\* str.rfind: the highest 0-based index at which p occurs in t, else -1
RFind(t, p) ==
    LET hits == {i \in 0..(Len(t) - Len(p)) :
                    SubSeq(t, i + 1, i + Len(p)) = p}
    IN  IF hits = {} THEN -1
        ELSE CHOOSE i \in hits : \A j \in hits : j <= i

\* the marks tried in turn: '. ', '! ', '? ', newline
Puncts == <<<<".", " ">>, <<"!", " ">>, <<"?", " ">>, <<"nl">>>>

\* the sentence-boundary loop with `last_punct >= self.chunk_size * 0.5`
SentenceBreak_at_half(chunk, chunk_size) ==
    LET found == {j \in DOMAIN Puncts :
                     2 * RFind(chunk, Puncts[j]) >= chunk_size}
    IN  IF found = {} THEN [chunk |-> chunk, cut |-> FALSE]
        ELSE LET j == CHOOSE a \in found : \A b \in found : a <= b IN
             [chunk |-> SubSeq(chunk, 1, RFind(chunk, Puncts[j]) + 1),
              cut |-> TRUE]

\* the sentence-boundary loop: the first mark whose last occurrence lies
\* past half the chunk size cuts the chunk right after the mark's first
\* character
SentenceBreak(chunk, chunk_size) ==
    LET found == {j \in DOMAIN Puncts :
                     2 * RFind(chunk, Puncts[j]) > chunk_size}
    IN  IF found = {} THEN [chunk |-> chunk, cut |-> FALSE]
        ELSE LET j == CHOOSE a \in found : \A b \in found : a <= b IN
             [chunk |-> SubSeq(chunk, 1, RFind(chunk, Puncts[j]) + 1),
              cut |-> TRUE]

\* no chunk_text call made yet. passes counts the passes of the loop,
\* modulo 2
IdleChunker ==
    [pc |-> "idle", arg |-> <<>>, text |-> <<>>, chunk_size |-> 0,
     overlap |-> 0, start |-> 0, chunks |-> <<>>, more |-> FALSE,
     passes |-> 0]

\* chunks.append, recorded up to MaxKept chunks
Kept(c, chunk) ==
    IF Len(c.chunks) < MaxKept
    THEN [c EXCEPT !.chunks = Append(@, chunk)]
    ELSE [c EXCEPT !.more = TRUE]

\* chunk_text up to its loop, with the length test made before the strip
chunk_begin_unstripped(text, chunk_size, overlap) ==
    LET c == [IdleChunker EXCEPT !.arg = text, !.text = Strip(text),
                                 !.chunk_size = chunk_size,
                                 !.overlap = overlap]
    IN  IF Len(text) <= chunk_size
        THEN [c EXCEPT !.pc = "done",
                       !.chunks = IF text # <<>> THEN <<text>> ELSE <<>>]
        ELSE [c EXCEPT !.pc = "loop"]

\* chunk_text up to its loop (text_processor.py 34-40)
chunk_begin(text, chunk_size, overlap) ==
    LET t == Strip(text)
        c == [IdleChunker EXCEPT !.arg = text, !.text = t,
                                 !.chunk_size = chunk_size,
                                 !.overlap = overlap]
    IN  IF Len(t) <= chunk_size
        THEN [c EXCEPT !.pc = "done",
                       !.chunks = IF t # <<>> THEN <<t>> ELSE <<>>]
        ELSE [c EXCEPT !.pc = "loop"]

\* the next start. With overlap >= chunk_size a start at or below
\* -(len(text) + chunk_size) yields the empty chunk and a start no higher,
\* on every pass from then on: such starts are recorded as that one value.
NextStart(c, end) ==
    LET s == end - c.overlap
        low == 0 - (Len(c.text) + c.chunk_size)
    IN  IF c.overlap >= c.chunk_size /\ s < low THEN low ELSE s

\* one test of the while condition and, if it holds, one pass of the loop
\* (text_processor.py 42-63)
chunk_pass(c) ==
    IF ~(c.start < Len(c.text))
    THEN [c EXCEPT !.pc = "done"]
    ELSE LET end0 == c.start + c.chunk_size
             chunk0 == PySlice(c.text, c.start, end0)
             b == IF end0 < Len(c.text)
                  THEN SentenceBreak(chunk0, c.chunk_size)
                  ELSE [chunk |-> chunk0, cut |-> FALSE]
             end == IF b.cut THEN c.start + Len(b.chunk) ELSE end0
             stripped == Strip(b.chunk)
             c1 == [c EXCEPT !.passes = 1 - @]
             c2 == IF stripped # <<>> THEN Kept(c1, stripped) ELSE c1
         IN  IF end >= Len(c.text)
             THEN [c2 EXCEPT !.pc = "done"]
             ELSE [c2 EXCEPT !.start = NextStart(c, end)]

\* a thread that is not inside add_documents. Inside, pc is the statement
\* it has completed, vectors and md are its arguments (embedded), and
\* row_at / meta_at are the positions at which its vectors and its records
\* went into the shared index and metadata list
IdleAppender ==
    [pc |-> "idle", branch |-> "", d |-> "", vectors |-> <<>>, md |-> <<>>,
     row_at |-> 0, meta_at |-> 0]

\* add_documents up to the embedding (index_builder.py 129-134, or 99-105
\* through build_index): the `self.index is None` test and the embedding
\* of the caller's chunks, which touches no shared state
append_call(idx, d, n) ==
    LET p == prepare_for_indexing(d, n) IN
    [IdleAppender EXCEPT !.pc = "embedded",
                         !.branch = IF idx.present THEN "append" ELSE "build",
                         !.d = d,
                         !.vectors = embed_documents(p.chunks).vectors,
                         !.md = p.metadata]

\* the next statement with `self.metadata = metadata` where the append
\* branch has self.metadata.extend(metadata)
append_step_assigns(a, idx, meta) ==
    IF a.branch = "build" /\ a.pc = "embedded"
    THEN [appender |-> [a EXCEPT !.pc = "created"],
          index |-> [present |-> TRUE, rows |-> <<>>], metadata |-> meta]
    ELSE IF a.pc \in {"embedded", "created"}
    THEN [appender |-> [a EXCEPT !.pc = "added", !.row_at = Len(idx.rows)],
          index |-> [present |-> TRUE, rows |-> idx.rows \o a.vectors],
          metadata |-> meta]
    ELSE [appender |-> [a EXCEPT !.pc = "done",
                                 !.meta_at = IF a.branch = "build" THEN 0
                                             ELSE Len(meta)],
          index |-> idx, metadata |-> a.md]

\* the next statement of a thread inside add_documents that writes shared
\* state: `self.index = faiss.IndexFlatIP(dim)` (build branch only), then
\* `self.index.add(...)`, then `self.metadata = metadata` (build branch) or
\* `self.metadata.extend(metadata)`. Each statement is taken as atomic.
append_step(a, idx, meta) ==
    IF a.branch = "build" /\ a.pc = "embedded"
    THEN [appender |-> [a EXCEPT !.pc = "created"],
          index |-> [present |-> TRUE, rows |-> <<>>], metadata |-> meta]
    ELSE IF a.pc \in {"embedded", "created"}
    THEN [appender |-> [a EXCEPT !.pc = "added", !.row_at = Len(idx.rows)],
          index |-> [present |-> TRUE, rows |-> idx.rows \o a.vectors],
          metadata |-> meta]
    ELSE IF a.branch = "build"
    THEN [appender |-> [a EXCEPT !.pc = "done", !.meta_at = 0],
          index |-> idx, metadata |-> a.md]
    ELSE [appender |-> [a EXCEPT !.pc = "done", !.meta_at = Len(meta)],
          index |-> idx, metadata |-> meta \o a.md]

\* a thread that is not inside retrieve. Inside, pc is the statement of
\* retrieve / _embed_query it executes next; q, key and oldest are its
\* locals, err the exception that ended the call, value the vector that
\* _embed_query returned and results what retrieve returned
IdleReader ==
    [pc |-> "idle", q |-> "", key |-> "", oldest |-> "", err |-> "",
     value |-> Embed(""), results |-> <<>>]

\* the order in which index.search ranks the rows for the readers' queries
ReadRanking(idx) == [i \in 1..Len(idx.rows) |-> i]

\* what retrieve(query) returns from the index, given that _embed_query
\* returned
ReadResults(idx, meta) ==
    retrieve(idx, meta, ReadRanking(idx), Len(idx.rows), 0, NoFilters,
             DefaultK).results

\* retrieve up to the call of _embed_query (retriever.py 95-103 and 63)
read_call(idx, q) ==
    IF ~is_ready(idx)
    THEN [IdleReader EXCEPT !.pc = "done", !.q = q]
    ELSE [IdleReader EXCEPT !.pc = "test", !.q = q, !.key = compute_hash(q)]

\* the next statement of a thread inside retrieve; the interpreter runs
\* each of these without switching threads, and may switch between any two
\* of them (embed_query releases the interpreter lock while it computes):
\*   test    `if cache_key not in self._query_cache`
\*   store   `self._query_cache[cache_key] = embedding`
\*   len     `if len(self._query_cache) > 1000`
\*   oldest  `oldest_key = next(iter(self._query_cache))`
\*   del     `del self._query_cache[oldest_key]`
\*   return  `return self._query_cache[cache_key]`, then the search
read_step(a, c, idx, meta) ==
    CASE a.pc = "test" ->
           [reader |-> [a EXCEPT !.pc = IF InCache(c, a.key) THEN "return"
                                        ELSE "store"],
            cache |-> c]
      [] a.pc = "store" ->
           [reader |-> [a EXCEPT !.pc = "len"],
            cache |-> IF InCache(c, a.key)
                      THEN [i \in DOMAIN c |->
                              IF c[i].key = a.key
                              THEN [key |-> a.key, vec |-> Embed(a.q)]
                              ELSE c[i]]
                      ELSE Append(c, [key |-> a.key, vec |-> Embed(a.q)])]
      [] a.pc = "len" ->
           [reader |-> [a EXCEPT !.pc = IF Len(c) > CacheCapacity
                                        THEN "oldest" ELSE "return"],
            cache |-> c]
      [] a.pc = "oldest" ->
           [reader |-> IF c = <<>>
                       THEN [a EXCEPT !.pc = "done", !.err = "StopIteration"]
                       ELSE [a EXCEPT !.pc = "del", !.oldest = c[1].key],
            cache |-> c]
      [] a.pc = "del" ->
           IF InCache(c, a.oldest)
           THEN [reader |-> [a EXCEPT !.pc = "return"],
                 cache |-> SelectSeq(c, LAMBDA e : e.key # a.oldest)]
           ELSE [reader |-> [a EXCEPT !.pc = "done", !.err = "KeyError"],
                 cache |-> c]
      [] OTHER ->
           IF InCache(c, a.key)
           THEN [reader |-> [a EXCEPT !.pc = "done",
                                      !.value = CacheGet(c, a.key),
                                      !.results = ReadResults(idx, meta)],
                 cache |-> c]
           ELSE [reader |-> [a EXCEPT !.pc = "done", !.err = "KeyError"],
                 cache |-> c]

----------------------------------------------------------------------------
(* Initial states.                                                         *)

\* IndexBuilder.__init__, with nothing persisted yet
InitIndex ==
    /\ index = NoIndex
    /\ metadata = <<>>
    /\ diskIndex = AbsentFile
    /\ diskMeta = AbsentFile
    /\ initialized = FALSE
    /\ last = [op |-> "init", ok |-> TRUE, err |-> "", was_ready |-> FALSE,
               denied |-> "none"]
    /\ resp = NoResponse

InitCache ==
    /\ cache = <<>>
    /\ cacheLog = NoCacheLog

InitGateway ==
    /\ calls = <<>>
    /\ now = 0
    /\ gw = Idle

\* no retrieve call made yet
NoRetrieve ==
    [op |-> "none", k |-> 0, given |-> FALSE, filters |-> NoFilters,
     was_ready |-> FALSE,
     raised |-> FALSE, results |-> <<>>, embedded |-> FALSE]

\* the threads that call into one pipeline at the same time
Threads == {"t1", "t2"}

InitCalls ==
    /\ ret = NoRetrieve
    /\ chunker = IdleChunker
    /\ appenders = [t \in Threads |-> IdleAppender]
    /\ readers = [t \in Threads |-> IdleReader]

Init == InitIndex /\ InitCache /\ InitGateway /\ InitCalls

----------------------------------------------------------------------------
(* SpecIndex: an IndexBuilder called through its public methods.           *)

BuildIndex ==
    \E documents \in SeqsUpTo(ArgTexts, MaxBatch),
       md \in SeqsUpTo(ArgMetas, MaxBatch),
       fault \in {"none", "embed", "add"} :
        LET r == build_index(index, metadata, documents, md, fault) IN
        /\ index' = r.index
        /\ metadata' = r.metadata
        /\ last' = Ended("build_index", r, is_ready(index), "none")
        /\ UNCHANGED <<diskIndex, diskMeta, initialized, resp>>

AddDocuments ==
    \E documents \in SeqsUpTo(ArgTexts, MaxBatch),
       md \in SeqsUpTo(ArgMetas, MaxBatch),
       fault \in {"none", "embed", "add"} :
        LET r == add_documents(index, metadata, documents, md, fault) IN
        /\ Len(r.index.rows) <= MaxRows
        /\ Len(r.metadata) <= MaxRows
        /\ index' = r.index
        /\ metadata' = r.metadata
        /\ last' = Ended("add_documents", r, is_ready(index), "none")
        /\ UNCHANGED <<diskIndex, diskMeta, initialized, resp>>

Save ==
    \E fault \in {"none", "index_write", "meta_open", "meta_dump"} :
        LET r == save(index, metadata, diskIndex, diskMeta, fault) IN
        /\ diskIndex' = r.diskIndex
        /\ diskMeta' = r.diskMeta
        /\ last' = Ended("save", r, is_ready(index), "none")
        /\ UNCHANGED <<index, metadata, initialized, resp>>

Load ==
    \E denied \in {"none", "index", "metadata"} :
        LET r == load(index, metadata, diskIndex, diskMeta, denied) IN
        /\ index' = r.index
        /\ metadata' = r.metadata
        /\ last' = Ended("load", r, is_ready(index), denied)
        /\ UNCHANGED <<diskIndex, diskMeta, initialized, resp>>

NextIndex ==
    /\ (BuildIndex \/ AddDocuments \/ Save \/ Load)
    /\ UNCHANGED <<cacheVars, gatewayVars, ret, chunker, threadVars>>

SpecIndex == Init /\ [][NextIndex]_vars

----------------------------------------------------------------------------
(* Spec: a RAGPipeline, from its construction on.                          *)

\* what an earlier process may have left on disk: nothing, the artifacts of
\* one cleanly saved one-chunk document, or such an index with a metadata
\* file that no longer parses
StartDisks ==
    {[index |-> AbsentFile, meta |-> AbsentFile],
     [index |-> ValidFile(<<Embed(ChunkText("d0", 0))>>),
      meta |-> ValidFile(<<ChunkMeta("d0", 0, 1)>>)],
     [index |-> ValidFile(<<Embed(ChunkText("d0", 0))>>),
      meta |-> CorruptFile]}

\* RAGPipeline.__init__: fresh components, then load_index()
InitPipeline ==
    \E disk \in StartDisks, denied \in {"none", "metadata"} :
        LET r == load_index(NoIndex, <<>>, FALSE, disk.index, disk.meta, denied)
        IN  /\ index = r.index
            /\ metadata = r.metadata
            /\ initialized = r.initialized
            /\ diskIndex = disk.index
            /\ diskMeta = disk.meta
            /\ last = Ended("__init__", r, FALSE, denied)
            /\ resp = NoResponse

InitSpec == InitPipeline /\ InitCache /\ InitGateway /\ InitCalls

\* the document ids held in memory or on disk
DocsOf(rows) == {rows[i].document_id : i \in DOMAIN rows}
StoredDocs ==
    DocsOf(metadata) \cup DocsOf(diskMeta.rows)
    \cup {index.rows[i].vec_of.document_id : i \in DOMAIN index.rows}
    \cup {diskIndex.rows[i].vec_of.document_id : i \in DOMAIN diskIndex.rows}

\* the rankings a search may return over n rows: every row can rank first
Rankings(n) == {[i \in 1..n |-> ((i + s - 2) % n) + 1] : s \in 1..n}
                \cup {[i \in 1..n |-> n + 1 - i]}

FilterChoices ==
    {NoFilters,
     Filters({"document_id"}, "d1", 0),
     Filters({"document_id", "chunk_idx"}, "d2", 0)}

\* str(uuid.uuid4())[:8]: an id no stored document has
FreshIds == {i \in DOMAIN DocIds : DocIds[i] \notin StoredDocs}
NextDocId == DocIds[CHOOSE i \in FreshIds : \A j \in FreshIds : i <= j]

\* an upload: process_and_index_file on a file that gets a fresh document id
Ingest ==
    /\ resp = NoResponse
    /\ FreshIds # {}
    /\ \E d \in {NextDocId}, n \in 1..MaxChunks, do_save \in BOOLEAN,
       fault \in {"none", "extract", "embed", "add",
                  "index_write", "meta_open", "meta_dump"} :
        LET r == process_and_index_file(index, metadata, initialized,
                                        diskIndex, diskMeta, d, n, do_save,
                                        fault)
        IN  /\ Len(index.rows) + n <= MaxRows
            /\ (~do_save => fault \in {"none", "extract", "embed", "add"})
            /\ index' = r.index
            /\ metadata' = r.metadata
            /\ initialized' = r.initialized
            /\ diskIndex' = r.diskIndex
            /\ diskMeta' = r.diskMeta
            /\ last' = Ended("ingest", r, is_ready(index), "none")
            /\ UNCHANGED <<resp, cacheVars>>

LoadIndex ==
    /\ resp = NoResponse
    /\ \E denied \in {"none", "metadata"} :
        LET r == load_index(index, metadata, initialized, diskIndex, diskMeta,
                            denied)
        IN  /\ index' = r.index
            /\ metadata' = r.metadata
            /\ initialized' = r.initialized
            /\ last' = Ended("load_index", r, is_ready(index), denied)
            /\ UNCHANGED <<diskIndex, diskMeta, resp, cacheVars>>

\* RAGPipeline.save_index
SaveIndex ==
    /\ resp = NoResponse
    /\ \E fault \in {"none", "index_write", "meta_open", "meta_dump"} :
        LET r == save(index, metadata, diskIndex, diskMeta, fault) IN
        /\ diskIndex' = r.diskIndex
        /\ diskMeta' = r.diskMeta
        /\ last' = Ended("save_index", r, is_ready(index), "none")
        /\ UNCHANGED <<index, metadata, initialized, resp, cacheVars>>

\* RAGPipeline.query, called by the /query route once the response of the
\* call before it was handed back. The query embedding goes through the
\* retriever's cache. The gateway's own state (rate limiter, clock) is the
\* subject of SpecGateway; here generate is the external collaborator and
\* llm is the result it hands back when it is reached.
Query ==
    /\ resp = NoResponse
    /\ \E k \in RequestedK, filters \in FilterChoices,
          ranking \in Rankings(Len(index.rows)), cut \in 0..Len(index.rows) :
        LET found == retrieve(index, metadata, ranking, cut, k, filters,
                              DefaultK)
            e == embed_query_cached(cache, "q1")
        IN  \E llm \in IF query(initialized, found, "ok").generated
                       THEN {"ok", "exhausted"} ELSE {"unused"} :
            LET r == query(initialized, found, llm)
                embedded == r.retrieved /\ found.embedded
            IN  /\ resp' = r
                /\ last' = [op |-> "query", ok |-> r.success, err |-> r.error,
                            was_ready |-> is_ready(index), denied |-> "none"]
                /\ cache' = IF embedded THEN e.cache ELSE cache
                /\ cacheLog' = IF embedded
                               THEN CacheLog("embed", e, "q1") ELSE cacheLog
                /\ UNCHANGED <<index, metadata, initialized,
                               diskIndex, diskMeta>>

\* the route hands the RAGResponse to its client
Deliver ==
    /\ resp # NoResponse
    /\ resp' = NoResponse
    /\ UNCHANGED <<index, metadata, initialized, diskIndex, diskMeta, last,
                   cacheVars>>

Next ==
    /\ (Ingest \/ LoadIndex \/ SaveIndex \/ Query \/ Deliver)
    /\ UNCHANGED <<gatewayVars, ret, chunker, threadVars>>

Spec == InitSpec /\ [][Next]_vars

----------------------------------------------------------------------------
(* SpecRetrieve: Retriever.retrieve called directly, between the ingests,  *)
(* loads and saves of the pipeline that owns the index.                    *)

\* one retrieve call: ranking and cut are what index.search and min_score
\* make of the query
\* the k argument of retrieve: left out (None, which `k or ...` treats as
\* it treats 0), or an int the caller passed
KArgs ==
    {[given |-> FALSE, k |-> 0]} \cup {[given |-> TRUE, k |-> k] : k \in RequestedK}

Retrieve ==
    /\ ret = NoRetrieve
    /\ \E arg \in KArgs, filters \in FilterChoices,
          ranking \in Rankings(Len(index.rows)), cut \in 0..Len(index.rows) :
        LET found == retrieve(index, metadata, ranking, cut, arg.k, filters,
                              DefaultK)
            e == embed_query_cached(cache, "q1")
        IN  /\ ret' = [op |-> "retrieve", k |-> arg.k, given |-> arg.given,
                       filters |-> filters,
                       was_ready |-> is_ready(index), raised |-> found.raised,
                       results |-> found.results, embedded |-> found.embedded]
            /\ cache' = IF found.embedded THEN e.cache ELSE cache
            /\ cacheLog' = IF found.embedded
                           THEN CacheLog("embed", e, "q1") ELSE cacheLog
            /\ UNCHANGED indexVars

\* the caller takes the list retrieve returned
RetrieveReturn ==
    /\ ret # NoRetrieve
    /\ ret' = NoRetrieve
    /\ UNCHANGED <<indexVars, cacheVars>>

NextRetrieve ==
    /\ \/ (ret = NoRetrieve /\ (Ingest \/ LoadIndex \/ SaveIndex)
            /\ UNCHANGED ret)
       \/ Retrieve
       \/ RetrieveReturn
    /\ UNCHANGED <<gatewayVars, chunker, threadVars>>

SpecRetrieve == InitSpec /\ [][NextRetrieve]_vars

----------------------------------------------------------------------------
(* SpecRoutes: the document routes of the API on one pipeline: uploads     *)
(* (and the loads and saves of the pipeline) and deletions.                *)

\* the ids a client asks to delete: ids of stored documents and an id no
\* document has
DeleteIds == {"d0", "d1", "d2", "d9"}

\* a deletion that drops the rows of the document and answers 200
delete_document_rows(idx, meta, dIdx, dMeta, document_id) ==
    LET keep == {i \in DOMAIN meta : meta[i].document_id # document_id} IN
    [index |-> [idx EXCEPT !.rows =
                    SelectSeq(idx.rows,
                              LAMBDA v : v.vec_of.document_id # document_id)],
     metadata |-> SelectSeq(meta, LAMBDA m : m.document_id # document_id),
     diskIndex |-> dIdx, diskMeta |-> dMeta,
     response |-> [status |-> 200, detail |-> "deleted",
                   document_id |-> document_id]]

\* the DELETE /documents/{document_id} route: HTTPException(501), whatever
\* the id and the pipeline hold
delete_document(idx, meta, dIdx, dMeta, document_id) ==
    [index |-> idx, metadata |-> meta, diskIndex |-> dIdx, diskMeta |-> dMeta,
     response |-> [status |-> 501,
                   detail |-> "Document deletion not yet implemented",
                   document_id |-> document_id]]

DeleteDocument ==
    /\ resp = NoResponse
    /\ \E document_id \in DeleteIds :
        LET r == delete_document(index, metadata, diskIndex, diskMeta,
                                 document_id)
        IN  /\ index' = r.index
            /\ metadata' = r.metadata
            /\ diskIndex' = r.diskIndex
            /\ diskMeta' = r.diskMeta
            /\ resp' = r.response
            /\ last' = [op |-> "delete_document", ok |-> FALSE,
                        err |-> "HTTPException",
                        was_ready |-> is_ready(index), denied |-> "none"]
            /\ UNCHANGED <<initialized, cacheVars>>

NextRoutes ==
    /\ (Ingest \/ LoadIndex \/ SaveIndex \/ DeleteDocument \/ Deliver)
    /\ UNCHANGED <<gatewayVars, ret, chunker, threadVars>>

SpecRoutes == InitSpec /\ [][NextRoutes]_vars

----------------------------------------------------------------------------
(* SpecAppendRace: two threads call add_documents on one IndexBuilder,     *)
(* each for a document of its own, and their statements interleave freely: *)
(* neither add_documents nor process_and_index_file takes a lock.          *)

\* the index the threads find: none, or one loaded document
InitAppendRace ==
    /\ InitCache /\ InitGateway /\ InitCalls
    /\ \E held \in BOOLEAN :
        /\ index = IF held
                   THEN [present |-> TRUE,
                         rows |-> <<Embed(ChunkText("d0", 0))>>]
                   ELSE NoIndex
        /\ metadata = IF held THEN <<ChunkMeta("d0", 0, 1)>> ELSE <<>>
        /\ initialized = held
    /\ diskIndex = AbsentFile
    /\ diskMeta = AbsentFile
    /\ last = [op |-> "init", ok |-> TRUE, err |-> "", was_ready |-> FALSE,
               denied |-> "none"]
    /\ resp = NoResponse

ThreadDoc(t) == IF t = "t1" THEN "d1" ELSE "d2"

AppendCall ==
    \E t \in Threads, n \in 1..MaxChunks :
        /\ appenders[t].pc = "idle"
        /\ appenders' = [appenders EXCEPT
                            ![t] = append_call(index, ThreadDoc(t), n)]
        /\ UNCHANGED <<index, metadata>>

AppendStep ==
    \E t \in Threads :
        /\ appenders[t].pc \in {"embedded", "created", "added"}
        /\ LET r == append_step(appenders[t], index, metadata) IN
            /\ appenders' = [appenders EXCEPT ![t] = r.appender]
            /\ index' = r.index
            /\ metadata' = r.metadata

NextAppendRace ==
    /\ (AppendCall \/ AppendStep)
    /\ UNCHANGED <<diskIndex, diskMeta, initialized, last, resp, cacheVars,
                   gatewayVars, ret, chunker, readers>>

SpecAppendRace == InitAppendRace /\ [][NextAppendRace]_vars

----------------------------------------------------------------------------
(* SpecReadRace: two threads call retrieve on one Retriever at the same    *)
(* time, one call each, while nothing appends to, builds or restores the   *)
(* index. The cache starts as earlier calls, made one after the other,     *)
(* have left it.                                                           *)

\* the queries of the earlier calls, in the order they were made
EarlierQueries == <<"q1", "q2", "q3", "q4", "q5">>

\* the queries the two threads ask
ReadQueries == {EarlierQueries[i] : i \in DOMAIN EarlierQueries}

\* the cache after the first n earlier queries, n within the capacity
CacheAfter(n) ==
    [i \in 1..n |-> [key |-> compute_hash(EarlierQueries[i]),
                     vec |-> Embed(EarlierQueries[i])]]

InitReadRace ==
    /\ InitGateway /\ InitCalls
    /\ index = [present |-> TRUE, rows |-> <<Embed(ChunkText("d0", 0))>>]
    /\ metadata = <<ChunkMeta("d0", 0, 1)>>
    /\ initialized = TRUE
    /\ diskIndex = AbsentFile
    /\ diskMeta = AbsentFile
    /\ last = [op |-> "init", ok |-> TRUE, err |-> "", was_ready |-> FALSE,
               denied |-> "none"]
    /\ resp = NoResponse
    /\ \E n \in 0..CacheCapacity : cache = CacheAfter(n)
    /\ cacheLog = NoCacheLog

ReadCall ==
    \E t \in Threads, q \in ReadQueries :
        /\ readers[t].pc = "idle"
        /\ readers' = [readers EXCEPT ![t] = read_call(index, q)]
        /\ UNCHANGED cache

ReadStep ==
    \E t \in Threads :
        /\ readers[t].pc \notin {"idle", "done"}
        /\ LET r == read_step(readers[t], cache, index, metadata) IN
            /\ readers' = [readers EXCEPT ![t] = r.reader]
            /\ cache' = r.cache

NextReadRace ==
    /\ (ReadCall \/ ReadStep)
    /\ UNCHANGED <<indexVars, cacheLog, gatewayVars, ret, chunker, appenders>>

SpecReadRace == InitReadRace /\ [][NextReadRace]_vars

----------------------------------------------------------------------------
(* SpecChunk: one chunk_text call; the result of a call depends on        *)
(* nothing but its text and the two settings.                              *)

ChunkStart ==
    /\ chunker.pc = "idle"
    /\ \E text \in SeqsUpTo(Alphabet, MaxText),
          chunk_size \in 1..MaxChunkSize, overlap \in 0..MaxOverlap :
        chunker' = chunk_begin(text, chunk_size, overlap)

ChunkPass ==
    /\ chunker.pc = "loop"
    /\ chunker' = chunk_pass(chunker)

NextChunk ==
    /\ (ChunkStart \/ ChunkPass)
    /\ UNCHANGED <<indexVars, cacheVars, gatewayVars, ret, threadVars>>

SpecChunk == Init /\ [][NextChunk]_vars

----------------------------------------------------------------------------
(* SpecChunkCut: chunk_text calls on texts with sentence marks, for the    *)
(* places at which the loop cuts its windows.                              *)

CutAlphabet == {"a", ".", " ", "nl"}

\* the overlaps tried: none, and one character
CutOverlaps == {0, 1}

\* texts of full length with up to MaxMarks characters other than letters
CutTexts ==
    {t \in [1..MaxCutText -> CutAlphabet] :
        Cardinality({i \in 1..MaxCutText : t[i] # "a"}) <= MaxMarks}

CutStart ==
    /\ chunker.pc = "idle"
    /\ \E text \in CutTexts,
          chunk_size \in 1..MaxCutSize, overlap \in CutOverlaps :
        chunker' = chunk_begin(text, chunk_size, overlap)

NextChunkCut ==
    /\ (CutStart \/ ChunkPass)
    /\ UNCHANGED <<indexVars, cacheVars, gatewayVars, ret, threadVars>>

SpecChunkCut == Init /\ [][NextChunkCut]_vars

----------------------------------------------------------------------------
(* SpecChunkLoop: chunk_text calls on full-length texts with at most one   *)
(* newline, from the moment the call is made. A call that has entered its  *)
(* loop keeps running: the interpreter executes the next pass.             *)

LoopTexts ==
    {t \in [1..MaxText -> Alphabet] :
        Cardinality({i \in 1..MaxText : t[i] = "nl"}) <= 1}

InitChunkLoop ==
    /\ InitIndex /\ InitCache /\ InitGateway
    /\ ret = NoRetrieve
    /\ appenders = [t \in Threads |-> IdleAppender]
    /\ readers = [t \in Threads |-> IdleReader]
    /\ \E text \in LoopTexts, chunk_size \in 1..MaxChunkSize,
          overlap \in 0..MaxOverlap :
        chunker = chunk_begin(text, chunk_size, overlap)

NextChunkLoop ==
    /\ ChunkPass
    /\ UNCHANGED <<indexVars, cacheVars, gatewayVars, ret, threadVars>>

SpecChunkLoop ==
    /\ InitChunkLoop
    /\ [][NextChunkLoop]_vars
    /\ WF_vars(NextChunkLoop)

----------------------------------------------------------------------------
(* SpecCache: the retriever's query cache, as retrieve and clear_cache use *)
(* it.                                                                     *)

EmbedQuery ==
    \E q \in Queries :
        LET e == embed_query_cached(cache, q) IN
        /\ cache' = e.cache
        /\ cacheLog' = CacheLog("embed", e, q)

ClearCache ==
    /\ cache' = clear_cache(cache)
    /\ cacheLog' = [NoCacheLog EXCEPT !.op = "clear"]

NextCache ==
    /\ (EmbedQuery \/ ClearCache)
    /\ UNCHANGED <<indexVars, gatewayVars, ret, chunker, threadVars>>

SpecCache == Init /\ [][NextCache]_vars

----------------------------------------------------------------------------
(* SpecGateway: generate calls, one at a time, while the clock runs.       *)

\* time passes (between calls, and while the API call is in flight)
Tick ==
    /\ now < MaxTime
    /\ now' = now + 1
    /\ UNCHANGED <<calls, gw>>

GenerateStart ==
    /\ gw.pc # "attempt"
    /\ \E client \in BOOLEAN, max_retries \in 0..MaxRetries :
        gw' = generate_start(client, max_retries)
    /\ UNCHANGED <<calls, now>>

\* one pass of the retry loop: the rate limiter, the API call and, after a
\* failure that is not the last, the backoff sleep
GenerateAttempt ==
    /\ gw.pc = "attempt"
    /\ \E outcome \in {"ok", "error"}, late \in {0, 1} :
        LET w == wait_if_needed(calls, now, late)
            g == generate_attempt(gw, outcome)
            backoff == IF Len(g.sleeps) > Len(gw.sleeps)
                       THEN g.sleeps[Len(g.sleeps)] ELSE 0
        IN  /\ (late = 1 => w.slept)
            /\ w.now + backoff <= MaxTime
            /\ Len(w.calls) <= MaxLogged
            /\ calls' = w.calls
            /\ now' = w.now + backoff
            /\ gw' = g

NextGateway ==
    /\ (Tick \/ GenerateStart \/ GenerateAttempt)
    /\ UNCHANGED <<indexVars, cacheVars, ret, chunker, threadVars>>

SpecGateway == Init /\ [][NextGateway]_vars

----------------------------------------------------------------------------
(* The properties checked.                                                 *)

InStep == document_count(index) = Len(metadata)

\* the last call was a query and its response is still in hand
Answered == last.op = "query" /\ resp # NoResponse

\* C1 (SpecIndex): after every add_documents call that returns normally,
\* whatever lists it was given, the index holds as many vectors as the
\* metadata list holds records.
C1_AppendKeepsCount ==
    (last.op = "add_documents" /\ last.ok) => InStep

\* C2 (SpecIndex): whenever load reports failure, the index is absent and
\* the metadata list is empty, so is_ready is false.
C2_FailedLoadResets ==
    (last.op = "load" /\ ~last.ok) =>
        (index = NoIndex /\ metadata = <<>> /\ ~is_ready(index))

\* C3 (SpecIndex): a load that is given a metadata artifact that does not
\* parse (and is allowed to read it) reports failure and leaves is_ready
\* false and document_count 0, whatever the index held before.
C3_CorruptMetadataResets ==
    (last.op = "load" /\ last.denied = "none" /\ diskMeta.state = "corrupt") =>
        (~last.ok /\ ~is_ready(index) /\ document_count(index) = 0)

\* a load that reached the malformed metadata file, made while the index
\* in memory was ready
C3_Witness ==
    /\ last.op = "load"
    /\ last.err = "JSONDecodeError"
    /\ last.was_ready
    /\ diskMeta.state = "corrupt"

DiskInStep ==
    (diskIndex.state = "valid" /\ diskMeta.state = "valid") =>
        Len(diskIndex.rows) = Len(diskMeta.rows)

\* C4 (Spec): the two artifacts are written as one: a call that starts with
\* the index and the metadata in step, in memory and on disk, and keeps
\* them in step in memory, never leaves a readable index artifact and a
\* readable metadata artifact of different lengths on disk.
C4_ArtifactsWrittenAsOne ==
    [][(InStep /\ DiskInStep /\ InStep') => DiskInStep']_vars

\* C5 (Spec): the initialized flag is set by the constructor only if its
\* restore succeeded, is never set back to false, and becomes true only in
\* a load_index that succeeds or an ingest whose append completed.
C5_InitializedOneWay ==
    /\ (initialized => (last.op = "__init__" /\ last.ok))
    /\ [][/\ initialized => initialized'
          /\ (~initialized /\ initialized') =>
                \/ last'.op = "load_index" /\ last'.ok
                \/ /\ last'.op = "ingest"
                   /\ Len(index'.rows) > Len(index.rows)
                   /\ Len(metadata') > Len(metadata)]_vars

\* an initialized pipeline on which a load_index has just failed
C5_Witness ==
    initialized /\ last.op = "load_index" /\ ~last.ok

\* C6 (Spec): a query on an uninitialized pipeline returns success = false,
\* the "no documents indexed" answer, no citations and no sources, and
\* reaches neither the retriever (the query cache stays empty) nor the
\* generator.
C6_UninitializedQuery ==
    (Answered /\ ~initialized) =>
        /\ resp.success = FALSE
        /\ resp.answer = NotIndexedAnswer
        /\ resp.citations = <<>>
        /\ resp.sources = <<>>
        /\ ~resp.retrieved
        /\ ~resp.generated
        /\ cache = <<>>

\* a query answered on a pipeline that was never initialized although an
\* index is in memory (left by a restore that failed half-way)
C6_Witness ==
    Answered /\ ~initialized /\ is_ready(index)

\* C7 (Spec): on an initialized pipeline a retrieval that yields nothing
\* gives success = true, the "no relevant information found" answer and no
\* citations, and the generator is invoked only for a query that retrieved
\* something.
C7_NothingRetrieved ==
    (Answered /\ initialized) =>
        /\ (resp.retrieved /\ ~resp.raised /\ resp.n_results = 0) =>
              /\ resp.success = TRUE
              /\ resp.answer = NotFoundAnswer
              /\ resp.citations = <<>>
              /\ ~resp.generated
        /\ resp.generated => resp.n_results > 0

\* a filtered query on a ready index that matched no row
C7_Witness ==
    /\ Answered
    /\ initialized
    /\ is_ready(index)
    /\ resp.retrieved
    /\ resp.n_results = 0
    /\ resp.answer = NotFoundAnswer

\* C8 (SpecGateway): generate makes at most max_retries API calls; when
\* every call fails it makes exactly max_retries of them and returns
\* success = false with the error that names that count; a call that
\* succeeds ends the loop at once.
C8_RetriesBounded ==
    /\ gw.api_calls <= gw.max_retries
    /\ gw.pc = "attempt" =>
          (gw.attempt < gw.max_retries /\ gw.failures = gw.attempt
           /\ gw.api_calls = gw.attempt)
    /\ (gw.pc = "done" /\ ~gw.success /\ gw.api_calls > 0) =>
          /\ gw.api_calls = gw.max_retries
          /\ gw.failures = gw.max_retries
          /\ gw.error = "LLM call failed after n attempts"
          /\ gw.error_n = gw.api_calls
    /\ (gw.pc = "done" /\ gw.success) =>
          gw.failures = gw.api_calls - 1

\* a generate call with the default max_retries = 3 whose three API calls
\* all failed
C8_Witness ==
    /\ gw.pc = "done"
    /\ ~gw.success
    /\ gw.max_retries = 3
    /\ gw.failures = 3
    /\ gw.error_n = 3

\* the admitted timestamps in the window of Period ticks that ends at t
InWindow(t) == {j \in DOMAIN calls : calls[j] > t - Period /\ calls[j] <= t}

\* C9 (SpecGateway): no window of Period ticks holds more than MaxCalls
\* admitted calls.
C9_WindowBound ==
    \A i \in DOMAIN calls : Cardinality(InWindow(calls[i])) <= MaxCalls

\* C10 (SpecCache): the cache never holds more than its capacity; a hit
\* leaves the cache as it was; a miss appends the new entry, after removing
\* the oldest entry if the cache was full, and keeps the others in order.
C10_CacheFifo ==
    /\ [](Len(cache) <= CacheCapacity)
    /\ [][cacheLog'.op = "embed" =>
            IF InCache(cache, cacheLog'.key)
            THEN cache' = cache /\ ~cacheLog'.invoked
            ELSE /\ cacheLog'.invoked
                 /\ cache'[Len(cache')].key = cacheLog'.key
                 /\ IF Len(cache) < CacheCapacity
                    THEN /\ Len(cache') = Len(cache) + 1
                         /\ SubSeq(cache', 1, Len(cache)) = cache
                         /\ cacheLog'.evicted = "none"
                    ELSE /\ Len(cache') = Len(cache)
                         /\ SubSeq(cache', 1, Len(cache) - 1) = Tail(cache)
                         /\ cacheLog'.evicted = cache[1].key]_vars

\* a full cache after a miss that evicted an entry
C10_Witness ==
    /\ cacheLog.op = "embed"
    /\ cacheLog.evicted # "none"
    /\ Len(cache) = CacheCapacity

\* C11 (SpecCache): when _embed_query is called twice in a row with the
\* same query string, the second call returns the vector the first call
\* returned and does not invoke the embedding model.
C11_SameQueryTwice ==
    [][(/\ cacheLog.op = "embed"
        /\ cacheLog'.op = "embed"
        /\ cacheLog'.query = cacheLog.query) =>
            (/\ cacheLog'.value = cacheLog.value
             /\ ~cacheLog'.invoked
             /\ cache' = cache)]_vars

\* "q2" is embedded a second time: the call is a hit that returns the
\* vector the model computed for "q2" on the first call
C11_Witness ==
    /\ cacheLog.op = "embed"
    /\ cacheLog.query = "q2"
    /\ ~cacheLog.invoked
    /\ cacheLog.value = Embed("q2")
    /\ InCache(cache, compute_hash("q2"))

\* C12 (SpecRetrieve): every record a retrieve call with filters returns
\* carries, under every key of the filters, the value the filters give.
C12_FiltersRespected ==
    (ret.op = "retrieve" /\ ret.filters.keys # {}) =>
        \A i \in DOMAIN ret.results :
            \A key \in ret.filters.keys :
                ret.results[i].metadata[key] = ret.filters[key]

\* a filtered call that returned a record while the metadata list also
\* holds a record of another document
C12_Witness ==
    /\ ret.op = "retrieve"
    /\ ret.filters.keys # {}
    /\ ret.results # <<>>
    /\ \E j \in DOMAIN metadata :
          metadata[j].document_id # ret.filters.document_id

\* C13 (SpecRetrieve): a retrieve call on an index that is not ready
\* returns the empty list, raises nothing, and reaches neither the embedder
\* (the cache is left as it was) nor the index search.
C13_NotReadyRetrieve ==
    /\ []((ret.op = "retrieve" /\ ~ret.was_ready) =>
            (~ret.raised /\ ret.results = <<>> /\ ~ret.embedded))
    /\ [][(ret'.op = "retrieve" /\ ret.op = "none" /\ ~ret'.was_ready) =>
            UNCHANGED cacheVars]_vars

\* a retrieve call with filters and a k, made while the index object exists
\* and holds no vector
C13_Witness ==
    /\ ret.op = "retrieve"
    /\ ~ret.was_ready
    /\ index.present
    /\ ret.filters.keys # {}
    /\ ret.k > 0

\* C14 (SpecChunkLoop): every chunk_text call returns.
C14_ChunkerTerminates == <>(chunker.pc = "done")

\* C15 (SpecChunk): for a text no longer than chunk_size, chunk_text
\* returns the list of the one trimmed text, or the empty list when the
\* text trims to nothing.
C15_ShortText ==
    (chunker.pc # "idle" /\ Len(chunker.arg) <= chunker.chunk_size) =>
        /\ chunker.pc = "done"
        /\ chunker.chunks =
              IF Strip(chunker.arg) = <<>> THEN <<>>
              ELSE <<Strip(chunker.arg)>>

\* a text with whitespace at both ends and exactly chunk_size characters
C15_Witness ==
    /\ chunker.pc = "done"
    /\ chunker.arg = <<"nl", "a", "nl", "a", "nl">>
    /\ chunker.chunk_size = 5
    /\ chunker.chunks = <<<<"a", "nl", "a">>>>

\* the response of a delete request that has not been handed back yet
DeleteAnswered == last.op = "delete_document" /\ resp # NoResponse

\* C16 (SpecRoutes): every delete request is answered with the
\* not-implemented status 501, for an id that is indexed and for one that
\* is not, and leaves the index, the metadata list and both persisted
\* artifacts as they were.
C16_DeleteNotImplemented ==
    /\ [](DeleteAnswered => resp.status = 501)
    /\ [][(resp = NoResponse /\ last'.op = "delete_document"
           /\ resp' # NoResponse) =>
            UNCHANGED <<index, metadata, diskIndex, diskMeta,
                        initialized>>]_vars

\* a delete request for a document that is held in memory and on disk
C16_Witness ==
    /\ DeleteAnswered
    /\ resp.document_id \in DocsOf(metadata)
    /\ resp.document_id \in DocsOf(diskMeta.rows)
    /\ index.present

\* a is b, or b cut short at its end
IsPrefix(a, b) == Len(a) <= Len(b) /\ SubSeq(b, 1, Len(a)) = a

\* every row and record held before the step is held after it, at the same
\* position and unchanged
RowsKept ==
    /\ IsPrefix(index.rows, index'.rows)
    /\ IsPrefix(metadata, metadata')

Aligned ==
    /\ Len(index.rows) = Len(metadata)
    /\ \A i \in DOMAIN metadata : index.rows[i] = Embed(metadata[i].content)

\* both threads have returned from an append to an index that existed
BothAppended ==
    \A t \in Threads :
        appenders[t].pc = "done" /\ appenders[t].branch = "append"

\* C18 (SpecAppendRace): after two appends that ran at the same time no
\* vector and no record is lost, and the two arrays are aligned exactly
\* when each thread's records went in at the position its vectors went in;
\* nothing makes the two positions equal.
C18_AppendRace ==
    BothAppended =>
        /\ Len(index.rows) = Len(metadata)
        /\ \A t \in Threads :
              /\ SubSeq(index.rows, appenders[t].row_at + 1,
                        appenders[t].row_at + Len(appenders[t].vectors))
                    = appenders[t].vectors
              /\ SubSeq(metadata, appenders[t].meta_at + 1,
                        appenders[t].meta_at + Len(appenders[t].md))
                    = appenders[t].md
        /\ Aligned <=>
              \A t \in Threads : appenders[t].row_at = appenders[t].meta_at

\* both appends have returned and some row i holds the vector of one
\* chunk while record i describes another
C18_Witness ==
    /\ BothAppended
    /\ Len(index.rows) = Len(metadata)
    /\ \E i \in DOMAIN metadata : index.rows[i] # Embed(metadata[i].content)

\* no retrieve call is in progress
NoReader == \A t \in Threads : readers[t].pc \in {"idle", "done"}

\* C19 (SpecReadRace): retrieve calls that run at the same time are safe:
\* each one that has returned ended without an exception and with the
\* results it returns when run alone, and once all have returned the cache
\* holds no more entries than its capacity.
C19_ConcurrentRetrievesSafe ==
    /\ \A t \in Threads :
          readers[t].pc = "done" =>
              /\ readers[t].err = ""
              /\ readers[t].results = ReadResults(index, metadata)
    /\ NoReader => Len(cache) <= CacheCapacity

\* C20 (SpecIndex): build_index with a documents list and a metadata list
\* of different lengths raises the validation error whatever else could
\* fail, calls no embedding, and leaves the index and the metadata list it
\* held as they were.
C20_MismatchRejected ==
    /\ [](\A documents \in SeqsUpTo(ArgTexts, MaxBatch),
             md \in SeqsUpTo(ArgMetas, MaxBatch),
             fault \in {"none", "embed", "add"} :
             Len(documents) # Len(md) =>
                 LET r == build_index(index, metadata, documents, md, fault)
                 IN  /\ ~r.ok /\ r.err = "ValueError"
                     /\ ~r.embedded
                     /\ r.index = index /\ r.metadata = metadata)
    /\ [][(last'.op = "build_index" /\ last'.err = "ValueError")
             => UNCHANGED <<index, metadata>>]_vars

\* a mismatched build_index was rejected by an IndexBuilder that holds an
\* index with rows
C20_Witness ==
    /\ last.op = "build_index" /\ ~last.ok /\ last.err = "ValueError"
    /\ last.was_ready
    /\ index.present /\ Len(index.rows) >= 1
    /\ Len(metadata) = Len(index.rows)

\* C21 (SpecChunk): with 0 <= overlap < chunk_size every pass of the
\* chunker loop that is followed by another pass moves the window forward:
\* the next start (the window end less the overlap) is higher than the
\* start of the pass, and is not negative.
C21_LoopProgress ==
    [][(chunker.pc = "loop" /\ chunker'.pc = "loop"
          /\ chunker.overlap < chunker.chunk_size)
         => (chunker'.start > chunker.start /\ chunker'.start >= 0)]_vars

\* the window of the pass the chunker is about to make
Window(c) == PySlice(c.text, c.start, c.start + c.chunk_size)

\* the pass the chunker is about to make has a window that ends before the
\* end of the text
BeforeEnd(c) ==
    c.pc = "loop" /\ c.start < Len(c.text)
        /\ c.start + c.chunk_size < Len(c.text)

\* the length of the marker that starts at 0-based position i of w, 0 if
\* none starts there
MarkLen(w, i) ==
    IF w[i + 1] = "nl" THEN 1
    ELSE IF i + 2 <= Len(w) /\ w[i + 1] \in {".", "!", "?"} /\ w[i + 2] = " "
    THEN 2 ELSE 0

\* C22 as stated (SpecChunkCut): a window that ends before the end of the
\* text is cut after the last marker that occurs in it at or after half
\* the chunk size, the marker included, and keeps its full length if there
\* is none.
C22_CutAtLastMarker ==
    [][BeforeEnd(chunker) =>
        LET w == Window(chunker)
            marks == {i \in 0..(Len(w) - 1) :
                         MarkLen(w, i) > 0 /\ 2 * i >= chunker.chunk_size}
            end == chunker'.start + chunker.overlap
        IN  IF marks = {}
            THEN end = chunker.start + chunker.chunk_size
            ELSE LET m == CHOOSE i \in marks : \A j \in marks : j <= i IN
                 end = chunker.start + m + MarkLen(w, m)]_vars

\* C22 as amended (SpecChunkCut): the markers are tried in the order
\* '. ', '! ', '? ', newline; the first whose last occurrence in the window
\* starts after half the chunk size cuts the window right behind the first
\* character of that occurrence; with no such marker the window keeps its
\* full length.
C22_CutAfterFirstMarkerFound ==
    [][BeforeEnd(chunker) =>
        LET w == Window(chunker)
            found == {j \in DOMAIN Puncts :
                         2 * RFind(w, Puncts[j]) > chunker.chunk_size}
            end == chunker'.start + chunker.overlap
        IN  /\ chunker'.pc = "loop"
            /\ IF found = {}
               THEN end = chunker.start + chunker.chunk_size
               ELSE LET j == CHOOSE a \in found : \A b \in found : a <= b IN
                    end = chunker.start + RFind(w, Puncts[j]) + 1]_vars

\* the first pass cut its window behind a '.' although a newline follows
\* later in the window
C22_Witness ==
    /\ chunker.pc = "loop" /\ chunker.passes = 1
    /\ chunker.text = <<"a", "a", "a", "a", ".", " ", "nl", "a">>
    /\ chunker.chunk_size = Len(chunker.text) - 1
    /\ chunker.start + chunker.overlap = Len(chunker.text) - 3
    /\ chunker.chunks = <<<<"a", "a", "a", "a", ".">>>>

\* C23 (SpecRetrieve): retrieve returns at most k results, k being the
\* value the caller passed, or the configured default if the caller passed
\* none.
C23_AtMostK ==
    ret.op = "retrieve" =>
        Len(ret.results) <= (IF ret.given THEN ret.k ELSE DefaultK)

\* C24 (SpecGateway): the i-th backoff sleep of a generate call lasts
\* 2^(i-1) seconds; every failed attempt but the last is followed by one
\* sleep, and neither the last failed attempt nor a successful one is;
\* every attempt is admitted by the rate limiter, which logs its time,
\* before the API call, and the clock moves on by the backoff after it.
C24_Backoff ==
    /\ [](/\ \A i \in DOMAIN gw.sleeps : gw.sleeps[i] = 2 ^ (i - 1)
          /\ gw.pc = "attempt" => Len(gw.sleeps) = gw.failures
          /\ (gw.pc = "done" /\ gw.success) => Len(gw.sleeps) = gw.failures
          /\ (gw.pc = "done" /\ ~gw.success /\ gw.api_calls > 0) =>
                Len(gw.sleeps) = gw.failures - 1)
    /\ [][gw'.api_calls = gw.api_calls + 1 =>
            /\ calls' # <<>>
            /\ calls'[Len(calls')] >= now
            /\ now' = calls'[Len(calls')]
                        + (IF Len(gw'.sleeps) > Len(gw.sleeps)
                           THEN 2 ^ Len(gw.sleeps) ELSE 0)]_vars

\* a generate call with three attempts that failed twice, slept 1 s and
\* 2 s, and then succeeded
C24_Witness ==
    /\ gw.pc = "done" /\ gw.success
    /\ gw.failures = Len(gw.sleeps)
    /\ gw.sleeps = <<1, 2>>

\* C25 (Spec): an ingest that raises, at whatever step, leaves the index,
\* the metadata list and the initialized flag as they were before the call.
C25_FailedIngestChangesNothing ==
    [][(last'.op = "ingest" /\ ~last'.ok)
         => UNCHANGED <<index, metadata, initialized>>]_vars

\* C26 as stated (Spec): whenever the pipeline is initialized its index is
\* ready.
C26_InitializedIsReady == initialized => is_ready(index)

\* C26 as amended (Spec): the flag becomes true only in a call that leaves
\* an index in memory, which is ready if the call is an ingest; and the
\* index of an initialized pipeline stops being ready only in a load_index
\* (one that fails and resets it, or one that restores an empty index).
C26_ReadyUntilLoad ==
    /\ [][(~initialized /\ initialized') =>
            /\ index'.present
            /\ last'.op = "ingest" => is_ready(index')]_vars
    /\ [][(initialized /\ is_ready(index) /\ ~is_ready(index'))
            => last'.op = "load_index"]_vars

\* an initialized pipeline whose index a failed load_index has just reset
C26_Witness ==
    /\ initialized /\ ~index.present /\ metadata = <<>>
    /\ last.op = "load_index" /\ ~last.ok /\ last.was_ready

====
